---- MODULE Spec2Model ----
(***************************************************************************)
(* Acquisition lifecycle of the TES detector device (sst_tes): staging,    *)
(* per-point triggering on a background thread, stop and unstaging, as     *)
(* they act on the local session state and on the remote TES server seen   *)
(* through its RPC replies and its STATE attribute.                        *)
(*                                                                         *)
(* The remote server is the environment.  Every RPC either returns         *)
(* {"success": True, ...} ("ok"), returns {"success": False, ...} ("fail") *)
(* or raises in the transport ("raise").  A file_start that succeeds opens *)
(* the remote file (STATE leaves "no_file"), a file_end that succeeds      *)
(* closes it; a failed or raising call leaves the remote file as it was.   *)
(***************************************************************************)
EXTENDS Integers, Sequences, FiniteSets, TLC

\* Bounds of the exploration.
MaxOps == 3        \* calls of stage/unstage/trigger/stop by the control task
MaxThreads == 2    \* background acquire threads started in one run

\* _data_index / _completion_status holding None (or not yet assigned).
None == -1
NoStatus == 0

Outcomes == {"ok", "fail", "raise"}
Classes == {"TES", "SIMTES"}

VARIABLES
    cls,                 \* the device class in use: TES or SIMTES
    file_mode,           \* self.file_mode
    cal_flag,            \* self._cal_flag
    state,               \* the remote STATE attribute: "no_file" or "open"
    _data_index,         \* next value of the itertools.count cursor, or None
    _completion_status,  \* index into statuses, or NoStatus
    _staged,             \* ophyd's Device._staged: "no" or "yes"
    statuses,            \* every DeviceStatus created: [origin, finished]
    threads,             \* every background _acquire thread
    log,                 \* every RPC issued, in the order it was sent
    sess,                \* number of stage() calls so far
    stages,              \* per stage() call: remote state it found, result
    nops,                \* number of control-task calls so far
    last                 \* the last control-task call and whether it raised

\* The state of the acquisition lifecycle.
lifecycle == <<cls, file_mode, cal_flag, state, _data_index, _completion_status,
               _staged, statuses, threads, log, sess, stages, nops, last>>

VARIABLES
    mark                 \* length of log when the last stop() returned, or None

\* Calibration workflow, ROI table, transports and device tree keep a record
\* of their own.
VARIABLES
    sent,                \* every request these operations put on the wire
    naux,                \* number of calls of these operations so far
    outcome              \* the last such call: its name and what it raised

shared == <<sent, naux, outcome>>

SharedIdle ==
    /\ sent = <<>>
    /\ naux = 0
    /\ outcome = [op |-> "init", exc |-> "none"]

\* The calibration workflow.
VARIABLES
    noise_filename,        \* the NOISE_FILE signal
    projector_filename,    \* the PROJECTOR_FILE signal
    _last_noise_file,      \* self._last_noise_file
    _last_projector_file   \* self._last_projector_file

calvars == <<noise_filename, projector_filename, _last_noise_file, _last_projector_file>>

\* What a filename signal holds before any file was recorded, and the
\* response value of a failed call (the server's message).  Filenames are
\* 1, 2, ...
NoName == 0
ErrMsg == -2

CalIdle ==
    /\ noise_filename = NoName
    /\ projector_filename = NoName
    /\ _last_noise_file = None
    /\ _last_projector_file = None

\* The tree of ophyd objects an RPCInterface looks for its client in.
\* tree[n] is the n-th object constructed: its parent (NoNode for a root),
\* whether it was given a port ("owner"), is an RPCInterface without one
\* ("inherit") or is no RPCInterface at all ("plain"), and its rpc
\* attribute.  The client an owner creates is named by the owner's number.
\* resolved is how the last run of _get_comm_function went.
VARIABLES tree, resolved

treevars == <<tree, resolved>>

MaxNodes == 3
NoNode == 0
NoClient == 0

TreeIdle ==
    /\ tree = <<>>
    /\ resolved = [op |-> "init", node |-> NoNode, from |-> NoNode, own |-> NoClient,
                   client |-> NoClient, steps |-> 0, exc |-> "none"]

\* The transport.  client is the kind of client the device was constructed
\* with, sockets the sockets the calls have made (and whether each is still
\* open), given and wire the arguments of the last request and its encoding,
\* fault what went wrong in the last call; _commStatus and _connected are
\* the attributes _commCheck keeps.
VARIABLES client, sockets, given, wire, fault, _commStatus, _connected

rpcvars == <<client, sockets, given, wire, fault, _commStatus, _connected>>

\* Python values whose type matters when they are compared.
PyTuple(items) == [type |-> "tuple", items |-> items]
PyList(items) == [type |-> "list", items |-> items]
PyDict(items) == [type |-> "dict", items |-> items]
PyNone == [type |-> "NoneType", items |-> <<>>]

NoRequest == [method |-> "", params |-> PyTuple(<<>>), kwargs |-> PyDict(<<>>)]
NoWire == [keys |-> {}, method |-> "", params |-> <<>>, kwargs |-> <<>>]

RpcIdle ==
    /\ client = "socket"
    /\ sockets = <<>>
    /\ given = NoRequest
    /\ wire = NoWire
    /\ fault = "none"
    /\ _commStatus = "Disconnected"
    /\ _connected = FALSE

\* The ROI table self.rois, and the table as the remote side has
\* acknowledged it: the table of the constructor with every roi_set that
\* was answered with success applied.
VARIABLES rois, acked

roivars == <<rois, acked>>

Labels == {"tfy", "roi1"}
Absent == <<>>
Limits == {<<0, 1200>>, <<200, 400>>}

\* self.rois = {"tfy": (0, 1200)}
InitialRois == [l \in Labels |-> IF l = "tfy" THEN <<0, 1200>> ELSE Absent]

RoiIdle == rois = InitialRois /\ acked = InitialRois

\* The state the lifecycle operations never touch.
aux == <<shared, calvars, treevars, rpcvars, roivars>>

vars == <<lifecycle, aux, mark>>

\* The untouched state before anything has acted on it.
AuxIdle == SharedIdle /\ CalIdle /\ TreeIdle /\ RpcIdle /\ RoiIdle

----------------------------------------------------------------------------
\* Helpers over the RPC log.

Entry(m, res, op, s, c) == [m |-> m, res |-> res, op |-> op, sess |-> s, call |-> c]

RECURSIVE Entries(_, _, _, _)
Entries(calls, op, s, c) ==
    IF calls = <<>> THEN <<>>
    ELSE <<Entry(calls[1].m, calls[1].res, op, s, c)>> \o Entries(Tail(calls), op, s, c)

Call(m, res) == [m |-> m, res |-> res]

\* raiseOnFailure: the wrapped call raises TESException unless the response
\* has success = True; an exception of the call itself propagates.
raiseOnFailure(res) == res # "ok"

----------------------------------------------------------------------------
\* TESBase._file_start(path=None, force=False) as stage() calls it: the RPC
\* is issued only when the remote STATE reads "no_file"; r is the outcome of
\* that RPC.  The result carries the calls issued, the remote state after
\* them and whether the decorated call raised.
_file_start(st, r) ==
    IF st = "no_file"
    THEN [calls |-> <<Call("file_start", r)>>,
          state |-> IF r = "ok" THEN "open" ELSE st,
          raised |-> raiseOnFailure(r)]
    ELSE [calls |-> <<>>, state |-> st, raised |-> FALSE]

\* TESBase._file_end
_file_end(st, r) ==
    [calls |-> <<Call("file_end", r)>>,
     state |-> IF r = "ok" THEN "no_file" ELSE st,
     raised |-> raiseOnFailure(r)]

\* TESBase._scan_end
_scan_end(st, r) ==
    [calls |-> <<Call("scan_end", r)>>, state |-> st, raised |-> raiseOnFailure(r)]

\* StartMethod ignoring the calibration flag.
StartMethodAlwaysScan(cal) == "scan_start"

\* TESBase._calibration_start / TESBase._scan_start, chosen by cal_flag.
StartMethod(cal) == IF cal THEN "calibration_start" ELSE "scan_start"

_scan_start(cal, st, r) ==
    [calls |-> <<Call(StartMethod(cal), r)>>, state |-> st, raised |-> raiseOnFailure(r)]

Skip(st) == [calls |-> <<>>, state |-> st, raised |-> FALSE]

\* StageFiles with the second check made on the state read before the first
\* file_start instead of on a fresh read.
StageFilesStaleState(fm, st, r1, r2) ==
    LET f1 == IF fm = "start_stop" THEN _file_start(st, r1) ELSE Skip(st)
        f2 == IF ~f1.raised /\ st = "no_file"
              THEN _file_start(st, r2) ELSE Skip(f1.state)
    IN  [calls |-> f1.calls \o f2.calls,
         state |-> IF f2.calls = <<>> THEN f1.state ELSE f2.state,
         raised |-> f1.raised \/ f2.raised]

\* The two file checks at the head of stage(): open the file when the mode
\* is start_stop, then open it when the remote STATE (read again) still
\* says "no_file".
StageFiles(fm, st, r1, r2) ==
    LET f1 == IF fm = "start_stop" THEN _file_start(st, r1) ELSE Skip(st)
        f2 == IF ~f1.raised /\ f1.state = "no_file"
              THEN _file_start(f1.state, r2) ELSE Skip(f1.state)
    IN  [calls |-> f1.calls \o f2.calls, state |-> f2.state,
         raised |-> f1.raised \/ f2.raised]

\* All RPCs of stage(), in order, up to the first one that raises.
StageRPCs(fm, cal, st, r1, r2, r3) ==
    LET f == StageFiles(fm, st, r1, r2)
        s == IF f.raised THEN Skip(f.state) ELSE _scan_start(cal, f.state, r3)
    IN  [calls |-> f.calls \o s.calls, state |-> s.state,
         raised |-> f.raised \/ s.raised]

\* All RPCs of unstage(), in order, up to the first one that raises.
UnstageRPCs(fm, st, r1, r2) ==
    LET e == _scan_end(st, r1)
        f == IF ~e.raised /\ fm = "start_stop" THEN _file_end(e.state, r2) ELSE Skip(e.state)
    IN  [calls |-> e.calls \o f.calls, state |-> f.state,
         raised |-> e.raised \/ f.raised]

----------------------------------------------------------------------------
\* The device as TESBase.__init__ leaves it: continuous file mode, the
\* calibration flag off, no cursor, no completion handle.  The class and what
\* the remote server reports are not decided by the constructor.
Init ==
    /\ cls \in Classes
    /\ file_mode = "continuous"
    /\ cal_flag = FALSE
    /\ state \in {"no_file", "open"}
    /\ _data_index = None
    /\ _completion_status = NoStatus
    /\ _staged = "no"
    /\ statuses = <<>>
    /\ threads = <<>>
    /\ log = <<>>
    /\ sess = 0
    /\ stages = <<>>
    /\ nops = 0
    /\ last = [op |-> "init", raised |-> FALSE]
    /\ mark = None
    /\ AuxIdle

\* The device once the operator has chosen the file mode ("continuous" or
\* "start_stop") and the calibration flag for the coming scans.
InitStaging ==
    /\ cls \in Classes
    /\ file_mode \in {"continuous", "start_stop"}
    /\ cal_flag \in BOOLEAN
    /\ state \in {"no_file", "open"}
    /\ _data_index = None
    /\ _completion_status = NoStatus
    /\ _staged = "no"
    /\ statuses = <<>>
    /\ threads = <<>>
    /\ log = <<>>
    /\ sess = 0
    /\ stages = <<>>
    /\ nops = 0
    /\ last = [op |-> "init", raised |-> FALSE]
    /\ mark = None
    /\ AuxIdle

\* TES.stage (TESMCA.stage is the same sequence): the cursor and a fresh
\* DeviceStatus are assigned first, then the RPCs run; the first one that
\* raises ends the call.  super().stage() comes last: ophyd's Device.stage
\* raises RedundantStaging when the device is already staged and marks it
\* staged otherwise.
Stage ==
    /\ nops < MaxOps
    /\ \E r1 \in Outcomes, r2 \in Outcomes, r3 \in Outcomes :
        LET run == StageRPCs(file_mode, cal_flag, state, r1, r2, r3)
            redundant == ~run.raised /\ _staged = "yes"
            result == IF run.raised THEN "rpc_failed"
                      ELSE IF redundant THEN "redundant" ELSE "ok"
        IN  /\ _data_index' = 0
            /\ statuses' = Append(statuses, [origin |-> "stage", finished |-> FALSE])
            /\ _completion_status' = Len(statuses) + 1
            /\ sess' = sess + 1
            /\ log' = log \o Entries(run.calls, "stage", sess + 1, nops + 1)
            /\ state' = run.state
            /\ stages' = Append(stages, [state0 |-> state, result |-> result])
            /\ _staged' = IF result = "ok" THEN "yes" ELSE _staged
            /\ last' = [op |-> "stage", raised |-> result # "ok"]
    /\ nops' = nops + 1
    /\ UNCHANGED <<cls, file_mode, cal_flag, threads>>
    /\ UNCHANGED <<aux, mark>>

\* TES.unstage (TESMCA.unstage is the same sequence): scan_end, then
\* file_end in start_stop mode, then the cursor is cleared and
\* super().unstage() marks the device unstaged; an RPC that raises ends the
\* call before the lines that follow it.
Unstage ==
    /\ nops < MaxOps
    /\ \E r1 \in Outcomes, r2 \in Outcomes :
        LET run == UnstageRPCs(file_mode, state, r1, r2)
        IN  /\ log' = log \o Entries(run.calls, "unstage", sess, nops + 1)
            /\ state' = run.state
            /\ _data_index' = IF run.raised THEN _data_index ELSE None
            /\ _staged' = IF run.raised THEN _staged ELSE "no"
            /\ last' = [op |-> "unstage", raised |-> run.raised]
    /\ nops' = nops + 1
    /\ UNCHANGED <<cls, file_mode, cal_flag, _completion_status, statuses,
                   threads, sess, stages>>
    /\ UNCHANGED <<aux, mark>>

\* trigger handing out the cursor's value without advancing the cursor.
triggerNoAdvance ==
    /\ nops < MaxOps
    /\ nops' = nops + 1
    /\ IF _data_index = None
       THEN /\ last' = [op |-> "trigger", raised |-> TRUE]
            /\ UNCHANGED <<_data_index, statuses, threads>>
       ELSE /\ Len(threads) < MaxThreads
            /\ statuses' = Append(statuses, [origin |-> "trigger", finished |-> FALSE])
            /\ UNCHANGED _data_index
            /\ threads' = Append(threads,
                   [status |-> Len(statuses) + 1, i |-> _data_index, sess |-> sess,
                    pc |-> "init", trace |-> <<>>, ls |-> 0, le |-> 0])
            /\ last' = [op |-> "trigger", raised |-> FALSE]
    /\ UNCHANGED <<cls, file_mode, cal_flag, state, _completion_status, _staged,
                   log, sess, stages>>
    /\ UNCHANGED <<aux, mark>>

\* TESBase.trigger: the DeviceStatus is created, the next index is taken
\* from the cursor and the daemon thread running _acquire(status, i) is
\* started.  next() on a cursor that is None raises before any thread exists.
trigger ==
    /\ nops < MaxOps
    /\ nops' = nops + 1
    /\ IF _data_index = None
       THEN /\ last' = [op |-> "trigger", raised |-> TRUE]
            /\ UNCHANGED <<_data_index, statuses, threads>>
       ELSE /\ Len(threads) < MaxThreads
            /\ statuses' = Append(statuses, [origin |-> "trigger", finished |-> FALSE])
            /\ _data_index' = _data_index + 1
            /\ threads' = Append(threads,
                   [status |-> Len(statuses) + 1, i |-> _data_index, sess |-> sess,
                    pc |-> "init", trace |-> <<>>, ls |-> 0, le |-> 0])
            /\ last' = [op |-> "trigger", raised |-> FALSE]
    /\ UNCHANGED <<cls, file_mode, cal_flag, state, _completion_status, _staged,
                   log, sess, stages>>
    /\ UNCHANGED <<aux, mark>>

\* stop() that also ends the background routines still running.
stopBodyCancelling ==
    /\ nops < MaxOps
    /\ nops' = nops + 1
    /\ IF _completion_status = NoStatus
       THEN /\ last' = [op |-> "stop", raised |-> FALSE]
            /\ UNCHANGED statuses
       ELSE IF statuses[_completion_status].finished
       THEN /\ last' = [op |-> "stop", raised |-> TRUE]
            /\ UNCHANGED statuses
       ELSE /\ statuses' = [statuses EXCEPT ![_completion_status].finished = TRUE]
            /\ last' = [op |-> "stop", raised |-> FALSE]
    /\ threads' = [t \in DOMAIN threads |->
                      IF threads[t].pc \in {"done", "dead"} THEN threads[t]
                      ELSE [threads[t] EXCEPT !.pc = "dead"]]
    /\ UNCHANGED <<cls, file_mode, cal_flag, state, _data_index, _completion_status,
                   _staged, log, sess, stages>>

\* TESBase.stop: finishes self._completion_status when it is not None.
\* DeviceStatus.set_finished() on a status that is already finished raises
\* and changes nothing.
stopBody ==
    /\ nops < MaxOps
    /\ nops' = nops + 1
    /\ IF _completion_status = NoStatus
       THEN /\ last' = [op |-> "stop", raised |-> FALSE]
            /\ UNCHANGED statuses
       ELSE IF statuses[_completion_status].finished
       THEN /\ last' = [op |-> "stop", raised |-> TRUE]
            /\ UNCHANGED statuses
       ELSE /\ statuses' = [statuses EXCEPT ![_completion_status].finished = TRUE]
            /\ last' = [op |-> "stop", raised |-> FALSE]
    /\ UNCHANGED <<cls, file_mode, cal_flag, state, _data_index, _completion_status,
                   _staged, threads, log, sess, stages>>

stop == stopBody /\ UNCHANGED <<aux, mark>>

\* stop() with the length of the log at its return kept for later reference.
stopMarked == stopBody /\ mark' = Len(log) /\ UNCHANGED aux

----------------------------------------------------------------------------
\* The background thread running _acquire(status, i), one step per blocking
\* point: TESBase._acquire for TES, SIMTES._acquire for SIMTES.

Threads == DOMAIN threads

Step(t, pc, ev) ==
    [threads EXCEPT ![t].pc = pc, ![t].trace = Append(@, ev)]

UNCHANGED_MAIN ==
    UNCHANGED <<cls, file_mode, cal_flag, state, _data_index, _completion_status,
                _staged, sess, stages, nops, last, aux, mark>>

\* self.rpc.scan_point_start(val) is sent.
PointStartSend(t) ==
    /\ threads[t].pc = "init"
    /\ log' = Append(log, Entry("scan_point_start", "sent", "acquire", threads[t].sess, t))
    /\ threads' = [Step(t, "start_wait", "start_sent") EXCEPT ![t].ls = Len(log) + 1]
    /\ UNCHANGED statuses
    /\ UNCHANGED_MAIN

\* What scan_point_start / scan_point_end can come back with: success with
\* the timestamp, a failure whose response value is a number, a failure whose
\* response value is a message, or an exception of the transport.
PointReplies ==
    {[res |-> "ok", num |-> TRUE], [res |-> "fail", num |-> TRUE],
     [res |-> "fail", num |-> FALSE], [res |-> "raise", num |-> FALSE]}

\* Whether _acquire goes on after a reply.  TESBase takes float() of the
\* response value, which raises ValueError when the value is not a number,
\* and never reads "success"; SIMTES does not look at the reply at all.
Continues(c, res, num) ==
    /\ res # "raise"
    /\ (c = "TES" => num)

\* The routine finishing its handle as soon as scan_point_start has returned.
PointStartReturnFinishing(t) ==
    /\ threads[t].pc = "start_wait"
    /\ \E r \in PointReplies :
        /\ log' = [log EXCEPT ![threads[t].ls].res = r.res]
        /\ IF Continues(cls, r.res, r.num)
           THEN /\ threads' = Step(t, "to_sleep", "start_returned")
                /\ statuses' = [statuses EXCEPT ![threads[t].status].finished = TRUE]
           ELSE /\ threads' = Step(t, "dead", "raised")
                /\ UNCHANGED statuses
    /\ UNCHANGED_MAIN

\* scan_point_start returns (or raises); TESBase records float(start_time).
PointStartReturn(t) ==
    /\ threads[t].pc = "start_wait"
    /\ \E r \in PointReplies :
        /\ log' = [log EXCEPT ![threads[t].ls].res = r.res]
        /\ threads' = IF Continues(cls, r.res, r.num)
                      THEN Step(t, "to_sleep", "start_returned")
                      ELSE Step(t, "dead", "raised")
    /\ UNCHANGED statuses
    /\ UNCHANGED_MAIN

\* ttime.sleep(self.acquire_time.get()) begins ...
SleepBegin(t) ==
    /\ threads[t].pc = "to_sleep"
    /\ threads' = Step(t, "sleeping", "sleep_begin")
    /\ UNCHANGED <<statuses, log>>
    /\ UNCHANGED_MAIN

\* ... and returns.
SleepEnd(t) ==
    /\ threads[t].pc = "sleeping"
    /\ threads' = Step(t, "slept", "sleep_end")
    /\ UNCHANGED <<statuses, log>>
    /\ UNCHANGED_MAIN

\* scan_point_end sent as soon as scan_point_start has returned, the sleep
\* left out.
PointEndSendBeforeSleep(t) ==
    /\ threads[t].pc = "to_sleep"
    /\ log' = Append(log, Entry("scan_point_end", "sent", "acquire", threads[t].sess, t))
    /\ threads' = [Step(t, "end_wait", "end_sent") EXCEPT ![t].le = Len(log) + 1]
    /\ UNCHANGED statuses
    /\ UNCHANGED_MAIN

\* self.rpc.scan_point_end() is sent.
PointEndSend(t) ==
    /\ threads[t].pc = "slept"
    /\ log' = Append(log, Entry("scan_point_end", "sent", "acquire", threads[t].sess, t))
    /\ threads' = [Step(t, "end_wait", "end_sent") EXCEPT ![t].le = Len(log) + 1]
    /\ UNCHANGED statuses
    /\ UNCHANGED_MAIN

\* scan_point_end returns (or raises); TESBase records float(msg["response"]);
\* then status.set_finished().
PointEndReturn(t) ==
    /\ threads[t].pc = "end_wait"
    /\ \E r \in PointReplies :
        /\ log' = [log EXCEPT ![threads[t].le].res = r.res]
        /\ IF Continues(cls, r.res, r.num)
           THEN /\ threads' = Step(t, "done", "end_returned")
                /\ statuses' = [statuses EXCEPT ![threads[t].status].finished = TRUE]
           ELSE /\ threads' = Step(t, "dead", "raised")
                /\ UNCHANGED statuses
    /\ UNCHANGED_MAIN

_acquire ==
    \E t \in Threads :
        \/ PointStartSend(t)
        \/ PointStartReturn(t)
        \/ SleepBegin(t)
        \/ SleepEnd(t)
        \/ PointEndSend(t)
        \/ PointEndReturn(t)

Next == Stage \/ Unstage \/ trigger \/ stop \/ _acquire

Spec == Init /\ [][Next]_vars

\* The lifecycle state of a device nothing has staged, for the operations
\* that do not depend on it.
LifeIdle ==
    /\ cls = "TES"
    /\ file_mode = "continuous"
    /\ cal_flag = FALSE
    /\ state = "no_file"
    /\ _data_index = None
    /\ _completion_status = NoStatus
    /\ _staged = "no"
    /\ statuses = <<>>
    /\ threads = <<>>
    /\ log = <<>>
    /\ sess = 0
    /\ stages = <<>>
    /\ nops = 0
    /\ last = [op |-> "init", raised |-> FALSE]
    /\ mark = None

\* Staging and unstaging alone, over every file mode and calibration flag.
NextStaging == Stage \/ Unstage

SpecStaging == InitStaging /\ [][NextStaging]_vars

\* trigger() called by a caller that keeps the contract: only when the
\* handle of every earlier trigger() has finished.
triggerAfterFinished ==
    /\ \A t \in Threads : statuses[threads[t].status].finished
    /\ trigger

\* The device driven by a caller that keeps the trigger() contract.
NextContract == Stage \/ Unstage \/ triggerAfterFinished \/ stopMarked \/ _acquire

SpecContract == Init /\ [][NextContract]_vars

----------------------------------------------------------------------------
\* The calibration workflow: take_noise, take_projectors, make_projectors,
\* set_projectors.  None of them looks at what was called before.

AuxEntry(m, args, res, val, op, c) ==
    [m |-> m, args |-> args, res |-> res, val |-> val, op |-> op, call |-> c]

\* The exception a raiseOnFailure-decorated call ends with.
ExcOf(res) ==
    IF res = "ok" THEN "none" ELSE IF res = "fail" THEN "TESException" ELSE "TransportError"

\* msg["response"] of a reply: the result when the call succeeded, the
\* server's message when it failed; a call that raised has no reply.
ResponseValue(res, result) ==
    IF res = "ok" THEN result ELSE IF res = "fail" THEN ErrMsg ELSE NoName

\* The name the server gives the next file it starts.
NextFileName ==
    1 + Cardinality({k \in DOMAIN sent : sent[k].m = "file_start" /\ sent[k].res = "ok"})

CalFrame == UNCHANGED <<lifecycle, mark, treevars, rpcvars, roivars>>

\* The body shared by take_noise and take_projectors: the trigger mode is
\* set (_set_noise_triggers / _set_pulse_triggers, raising on failure), then
\* file_start is called and, once it has returned, its response value is
\* recorded; raiseOnFailure then looks at the reply.
TakeFile(op, trig, r1, r2) ==
    LET c == naux + 1
        t == AuxEntry(trig, <<>>, r1, ResponseValue(r1, NoName), op, c)
        file == ResponseValue(r2, NextFileName)
        f == AuxEntry("file_start", <<>>, r2, file, op, c)
    IN  IF raiseOnFailure(r1)
        THEN [calls |-> <<t>>, recorded |-> FALSE, file |-> NoName, exc |-> ExcOf(r1)]
        ELSE [calls |-> <<t, f>>, recorded |-> r2 # "raise", file |-> file, exc |-> ExcOf(r2)]

\* TESBase.take_noise
take_noise ==
    /\ naux < MaxOps
    /\ \E r1 \in Outcomes, r2 \in Outcomes :
        LET run == TakeFile("take_noise", "set_noise_triggers", r1, r2)
        IN  /\ sent' = sent \o run.calls
            /\ noise_filename' = IF run.recorded THEN run.file ELSE noise_filename
            /\ _last_noise_file' = IF run.recorded THEN run.file ELSE _last_noise_file
            /\ outcome' = [op |-> "take_noise", exc |-> run.exc]
    /\ naux' = naux + 1
    /\ UNCHANGED <<projector_filename, _last_projector_file>>
    /\ CalFrame

\* TESBase.take_projectors
take_projectors ==
    /\ naux < MaxOps
    /\ \E r1 \in Outcomes, r2 \in Outcomes :
        LET run == TakeFile("take_projectors", "set_pulse_triggers", r1, r2)
        IN  /\ sent' = sent \o run.calls
            /\ projector_filename' = IF run.recorded THEN run.file ELSE projector_filename
            /\ _last_projector_file' = IF run.recorded THEN run.file ELSE _last_projector_file
            /\ outcome' = [op |-> "take_projectors", exc |-> run.exc]
    /\ naux' = naux + 1
    /\ UNCHANGED <<noise_filename, _last_noise_file>>
    /\ CalFrame

\* make_projectors sending the two filenames the other way round.
make_projectorsSwapped ==
    /\ naux < MaxOps
    /\ \E r \in Outcomes :
        /\ sent' = Append(sent, AuxEntry("make_projectors",
                        <<projector_filename, noise_filename>>,
                        r, ResponseValue(r, NoName), "make_projectors", naux + 1))
        /\ outcome' = [op |-> "make_projectors", exc |-> ExcOf(r)]
    /\ naux' = naux + 1
    /\ UNCHANGED calvars
    /\ CalFrame

\* TESBase.make_projectors
make_projectors ==
    /\ naux < MaxOps
    /\ \E r \in Outcomes :
        /\ sent' = Append(sent, AuxEntry("make_projectors",
                        <<noise_filename, projector_filename>>,
                        r, ResponseValue(r, NoName), "make_projectors", naux + 1))
        /\ outcome' = [op |-> "make_projectors", exc |-> ExcOf(r)]
    /\ naux' = naux + 1
    /\ UNCHANGED calvars
    /\ CalFrame

\* TESBase.set_projectors
set_projectors ==
    /\ naux < MaxOps
    /\ \E r \in Outcomes :
        /\ sent' = Append(sent, AuxEntry("set_projectors", <<>>,
                        r, ResponseValue(r, NoName), "set_projectors", naux + 1))
        /\ outcome' = [op |-> "set_projectors", exc |-> ExcOf(r)]
    /\ naux' = naux + 1
    /\ UNCHANGED calvars
    /\ CalFrame

InitCal == LifeIdle /\ AuxIdle

NextCal == take_noise \/ take_projectors \/ make_projectors \/ set_projectors

SpecCal == InitCal /\ [][NextCal]_vars

----------------------------------------------------------------------------
\* RPCInterface: finding the client through the parents.

NodeKinds == {"owner", "inherit", "plain"}

\* hasattr(parent, "rpc") and hasattr(parent, "parent"): None has neither,
\* every ophyd object has a parent attribute.
HasAttrRpc(p) == p # NoNode /\ tree[p].rpc # NoClient
HasAttrParent(p) == p # NoNode

\* RPCInterface._get_comm_tail; steps counts the parent attributes read so far.
RECURSIVE _get_comm_tail(_, _)
_get_comm_tail(p, steps) ==
    IF HasAttrRpc(p)
    THEN [client |-> tree[p].rpc, steps |-> steps, exc |-> "none"]
    ELSE IF HasAttrParent(p)
    THEN _get_comm_tail(tree[p].parent, steps + 1)
    ELSE [client |-> NoClient, steps |-> steps, exc |-> "IOError"]

\* RPCInterface._get_comm_function of an object whose rpc attribute is own
\* (NoClient while it has none) and whose parent is p.
_get_comm_function(own, p) ==
    IF own # NoClient
    THEN [client |-> own, steps |-> 0, exc |-> "none"]
    ELSE _get_comm_tail(p, 1)

TreeFrame == UNCHANGED <<lifecycle, mark, shared, calvars, rpcvars, roivars>>

Resolution(op, n, p, own, r) ==
    [op |-> op, node |-> n, from |-> p, own |-> own,
     client |-> r.client, steps |-> r.steps, exc |-> r.exc]

\* An RPCInterface constructed without a port that does not keep the client
\* it found.
ConstructUncached ==
    /\ Len(tree) < MaxNodes
    /\ \E p \in 0..Len(tree), k \in NodeKinds :
        LET n == Len(tree) + 1
            r == _get_comm_function(NoClient, p)
        IN  CASE k = "owner" ->
                    /\ tree' = Append(tree, [parent |-> p, kind |-> k, rpc |-> n])
                    /\ resolved' = Resolution("construct", n, p, n,
                                        [client |-> n, steps |-> 0, exc |-> "none"])
              [] k = "plain" ->
                    /\ tree' = Append(tree, [parent |-> p, kind |-> k, rpc |-> NoClient])
                    /\ UNCHANGED resolved
              [] k = "inherit" ->
                    /\ resolved' = Resolution("construct", n, p, NoClient, r)
                    /\ tree' = IF r.exc = "none"
                               THEN Append(tree, [parent |-> p, kind |-> k, rpc |-> NoClient])
                               ELSE tree
    /\ TreeFrame

\* RPCInterface.__init__ of the next object, under an existing parent or as
\* a root.  With a port it makes its own client; without one it stores the
\* client _get_comm_function finds, and when that raises the object is not
\* constructed.  An object that is no RPCInterface gets no rpc attribute.
Construct ==
    /\ Len(tree) < MaxNodes
    /\ \E p \in 0..Len(tree), k \in NodeKinds :
        LET n == Len(tree) + 1
            r == _get_comm_function(NoClient, p)
        IN  CASE k = "owner" ->
                    /\ tree' = Append(tree, [parent |-> p, kind |-> k, rpc |-> n])
                    /\ resolved' = Resolution("construct", n, p, n,
                                        [client |-> n, steps |-> 0, exc |-> "none"])
              [] k = "plain" ->
                    /\ tree' = Append(tree, [parent |-> p, kind |-> k, rpc |-> NoClient])
                    /\ UNCHANGED resolved
              [] k = "inherit" ->
                    /\ resolved' = Resolution("construct", n, p, NoClient, r)
                    /\ tree' = IF r.exc = "none"
                               THEN Append(tree, [parent |-> p, kind |-> k, rpc |-> r.client])
                               ELSE tree
    /\ TreeFrame

\* _get_comm_function called on a constructed RPCInterface.
Resolve ==
    /\ \E n \in DOMAIN tree :
        /\ tree[n].kind # "plain"
        /\ resolved' = Resolution("resolve", n, tree[n].parent, tree[n].rpc,
                            _get_comm_function(tree[n].rpc, tree[n].parent))
    /\ UNCHANGED tree
    /\ TreeFrame

InitTree == LifeIdle /\ AuxIdle

NextTree == Construct \/ Resolve

SpecTree == InitTree /\ [][NextTree]_vars

----------------------------------------------------------------------------
\* JSONClientBase, SocketClient, ZMQREQClient and TESBase._commCheck.

\* Python's ==: values of different types are not equal.
PyEq(a, b) == a.type = b.type /\ a.items = b.items

\* json.dumps of the message: a tuple is written as an array, a dict as an
\* object; a key the message does not have is not written.
json_dumps(msg) ==
    [keys |-> msg.keys,
     method |-> msg.method,
     params |-> IF "params" \in msg.keys THEN msg.params.items ELSE <<>>,
     kwargs |-> IF "kwargs" \in msg.keys THEN msg.kwargs.items ELSE <<>>]

\* JSONClientBase.formatMsg(method, *params, **kwargs)
formatMsg(method, params, kwargs) ==
    LET msg == [keys |-> {"method"}, method |-> method, params |-> params, kwargs |-> kwargs]
        withParams ==
            IF params # PyNone /\ ~PyEq(params, PyList(<<>>))
            THEN [msg EXCEPT !.keys = @ \cup {"params"}]
            ELSE msg
        withKwargs ==
            IF kwargs # PyNone /\ ~PyEq(kwargs, PyDict(<<>>))
            THEN [withParams EXCEPT !.keys = @ \cup {"kwargs"}]
            ELSE withParams
    IN  json_dumps(withKwargs)

\* The calls the device makes, by their arguments: file_end(),
\* scan_point_start(val), scan_end(_try_post_processing=False) and
\* file_start(path, setFilenamePattern=...).
Requests ==
    {[method |-> "file_end", params |-> PyTuple(<<>>), kwargs |-> PyDict(<<>>)],
     [method |-> "scan_point_start", params |-> PyTuple(<<1>>), kwargs |-> PyDict(<<>>)],
     [method |-> "scan_end", params |-> PyTuple(<<>>),
      kwargs |-> PyDict(<< <<"_try_post_processing", 0>> >>)],
     [method |-> "file_start", params |-> PyTuple(<<1>>),
      kwargs |-> PyDict(<< <<"setFilenamePattern", 0>> >>)]}

CommCheckRequest == [method |-> "commCheck", params |-> PyTuple(<<>>), kwargs |-> PyDict(<<>>)]

ClientKinds == {"socket", "zmqreq"}

\* What can happen in one sendrcv: the peer replies with success true or
\* false, or a step of the transport raises.
Faults(c) ==
    IF c = "socket"
    THEN {"ok", "fail", "refused", "send_error", "recv_error", "malformed"}
    ELSE {"ok", "fail", "timeout", "malformed"}

\* The exception each fault raises out of sendrcv.
Raises(f) ==
    CASE f = "refused" -> "ConnectionRefusedError"
      [] f = "send_error" -> "OSError"
      [] f = "recv_error" -> "OSError"
      [] f = "malformed" -> "JSONDecodeError"
      [] f = "timeout" -> "TimeoutError"
      [] OTHER -> "none"

\* SocketClient.sendrcv: s.close() is reached only when connect, send, recv
\* and json.loads have all returned.
SocketClient_sendrcv(f) ==
    [sent |-> f # "refused", open |-> f \notin {"ok", "fail"}, exc |-> Raises(f)]

\* ZMQREQClient.sendrcv: the socket is closed on both branches of the poll,
\* but not when recv_json raises.
ZMQREQClient_sendrcv(f) ==
    [sent |-> TRUE, open |-> f = "malformed", exc |-> Raises(f)]

\* client.<method>(*params, **kwargs) through JSONClientBase.__getattr__.
sendrcvRun(f) ==
    IF client = "socket" THEN SocketClient_sendrcv(f) ELSE ZMQREQClient_sendrcv(f)

RpcFrame == UNCHANGED <<lifecycle, mark, calvars, treevars, roivars>>

\* The bookkeeping of one sendrcv of request q under fault f, made by op.
Transport(q, f, op) ==
    LET run == sendrcvRun(f)
        c == naux + 1
        res == IF run.exc # "none" THEN "raise" ELSE f
    IN  /\ given' = q
        /\ wire' = formatMsg(q.method, q.params, q.kwargs)
        /\ fault' = f
        /\ sockets' = Append(sockets, [call |-> c, open |-> run.open])
        /\ sent' = IF run.sent
                   THEN Append(sent, AuxEntry(q.method, <<>>, res,
                                              ResponseValue(res, NoName), op, c))
                   ELSE sent
        /\ naux' = c

\* A call of the client: SocketClient.sendrcv or ZMQREQClient.sendrcv.
sendrcv ==
    /\ naux < MaxOps
    /\ \E q \in Requests, f \in Faults(client) :
        /\ Transport(q, f, "sendrcv")
        /\ outcome' = [op |-> "sendrcv", exc |-> sendrcvRun(f).exc]
    /\ UNCHANGED <<client, _commStatus, _connected>>
    /\ RpcFrame

\* TESBase._commCheck
_commCheck ==
    /\ naux < MaxOps
    /\ \E f \in Faults(client) :
        LET exc == sendrcvRun(f).exc
        IN  /\ Transport(CommCheckRequest, f, "_commCheck")
            /\ IF exc = "none"
               THEN /\ _connected' = (f = "ok")
                    /\ _commStatus' = IF f = "ok" THEN "ServerStatus" ELSE "ServerError"
                    /\ outcome' = [op |-> "_commCheck", exc |-> "none"]
               ELSE IF exc = "RPCException"
               THEN /\ _connected' = FALSE
                    /\ _commStatus' = "Disconnected"
                    /\ outcome' = [op |-> "_commCheck", exc |-> "none"]
               ELSE /\ UNCHANGED <<_connected, _commStatus>>
                    /\ outcome' = [op |-> "_commCheck", exc |-> exc]
    /\ UNCHANGED client
    /\ RpcFrame

\* RPCInterface.__init__ with a port: client 'socket' or 'zmqreq'.
InitRPC ==
    /\ LifeIdle
    /\ SharedIdle /\ CalIdle /\ TreeIdle /\ RoiIdle
    /\ client \in ClientKinds
    /\ sockets = <<>>
    /\ given = NoRequest
    /\ wire = NoWire
    /\ fault = "none"
    /\ _commStatus = "Disconnected"
    /\ _connected = FALSE

NextRPC == sendrcv \/ _commCheck

SpecRPC == InitRPC /\ [][NextRPC]_vars

----------------------------------------------------------------------------
\* The ROI table of TESBase.

RoiFrame == UNCHANGED <<lifecycle, mark, calvars, treevars, rpcvars>>

\* TESBase.set_roi: the table is written, then roi_set is called; its reply
\* is returned as it is, a failed one included.
set_roi ==
    /\ naux < MaxOps
    /\ \E label \in Labels, lim \in Limits, r \in Outcomes :
        /\ rois' = [rois EXCEPT ![label] = lim]
        /\ sent' = Append(sent, AuxEntry("roi_set", <<label, lim>>, r,
                                         ResponseValue(r, NoName), "set_roi", naux + 1))
        /\ acked' = IF r = "ok" THEN [acked EXCEPT ![label] = lim] ELSE acked
        /\ outcome' = [op |-> "set_roi", exc |-> IF r = "raise" THEN "TransportError" ELSE "none"]
    /\ naux' = naux + 1
    /\ RoiFrame

\* TESBase.clear_roi: self.rois.pop(label) raises KeyError for a label the
\* table does not have; otherwise the entry is removed, then roi_set is
\* called with (None, None).
clear_roi ==
    /\ naux < MaxOps
    /\ \E label \in Labels, r \in Outcomes :
        IF rois[label] = Absent
        THEN /\ outcome' = [op |-> "clear_roi", exc |-> "KeyError"]
             /\ UNCHANGED <<rois, acked, sent>>
        ELSE /\ rois' = [rois EXCEPT ![label] = Absent]
             /\ sent' = Append(sent, AuxEntry("roi_set", <<label, Absent>>, r,
                                              ResponseValue(r, NoName), "clear_roi", naux + 1))
             /\ acked' = IF r = "ok" THEN [acked EXCEPT ![label] = Absent] ELSE acked
             /\ outcome' = [op |-> "clear_roi",
                            exc |-> IF r = "raise" THEN "TransportError" ELSE "none"]
    /\ naux' = naux + 1
    /\ RoiFrame

InitROI == LifeIdle /\ AuxIdle

NextROI == set_roi \/ clear_roi

SpecROI == InitROI /\ [][NextROI]_vars

----------------------------------------------------------------------------
\* Vocabulary of the properties.

IsPrefix(a, b) == Len(a) <= Len(b) /\ \A k \in 1..Len(a) : a[k] = b[k]

Occurs(ev, tr) == \E k \in DOMAIN tr : tr[k] = ev

\* The events of a complete point acquisition, in the order required.
AcquireSequence ==
    <<"start_sent", "start_returned", "sleep_begin", "sleep_end", "end_sent", "end_returned">>

\* The events of a thread before the exception that ended it, if any.
Events(t) ==
    LET tr == threads[t].trace
    IN  IF tr # <<>> /\ tr[Len(tr)] = "raised" THEN SubSeq(tr, 1, Len(tr) - 1) ELSE tr

Returned(k) == log[k].res # "sent"

InFlight(t) == threads[t].pc \notin {"done", "dead"}

Finished(h) == statuses[h].finished

\* RPCs issued by the s-th stage() call.
StageCalls(s) == {k \in DOMAIN log : log[k].op = "stage" /\ log[k].sess = s}
FileStarts(s) == {k \in StageCalls(s) : log[k].m = "file_start"}
Starts(s) == {k \in StageCalls(s) : log[k].m \in {"calibration_start", "scan_start"}}

\* RPCs issued by the c-th call of the control task.
CallSeq(c) == SelectSeq(log, LAMBDA e : e.op # "acquire" /\ e.call = c)

----------------------------------------------------------------------------
\* C1: each background acquire routine issues its steps in the fixed order:
\* scan_point_start is sent and has returned before the exposure sleep
\* begins, and scan_point_end is sent only after the sleep has ended.
AcquireOrder ==
    \A t \in Threads :
        /\ IsPrefix(Events(t), AcquireSequence)
        /\ threads[t].pc = "sleeping" => threads[t].ls # 0 /\ Returned(threads[t].ls)
        /\ threads[t].le # 0 =>
              /\ log[threads[t].le].m = "scan_point_end"
              /\ threads[t].ls # 0 /\ threads[t].ls < threads[t].le
              /\ log[threads[t].ls].m = "scan_point_start"
              /\ Returned(threads[t].ls)
              /\ Occurs("sleep_end", threads[t].trace)

AcquireOrderWitness ==
    \E t \in Threads : threads[t].pc = "done" /\ threads[t].trace = AcquireSequence

\* C2: the handle returned by trigger() is finished only when both
\* scan_point_start and scan_point_end have returned with success = true and
\* the exposure sleep has elapsed.
FinishedOnlyAfterSuccess ==
    \A t \in Threads :
        Finished(threads[t].status) =>
            /\ threads[t].ls # 0 /\ log[threads[t].ls].res = "ok"
            /\ threads[t].le # 0 /\ log[threads[t].le].res = "ok"
            /\ Occurs("sleep_end", threads[t].trace)

\* C3: once stop() has returned, the handle returned by every earlier
\* trigger() is finished, whether or not its background routine has ended.
StopFinishesTriggerHandle ==
    (last.op = "stop" /\ ~last.raised) =>
        \A t \in Threads : Finished(threads[t].status)

\* C4: while a background acquisition is in flight exactly one unfinished
\* completion handle exists, counting the handle made by stage() and the
\* handles made by trigger().
Outstanding ==
    {h \in DOMAIN statuses :
        /\ ~Finished(h)
        /\ (h = _completion_status \/ \E t \in Threads : threads[t].status = h)}

ExactlyOneOutstanding ==
    (\E t \in Threads : InFlight(t)) => Cardinality(Outstanding) = 1

\* C5: every file_end of a session whose stage() succeeded is preceded by a
\* successful file_start of the same session which no other file_end has
\* closed in between.
FileEndClosesOwnFileStart ==
    \A k \in DOMAIN log :
        (/\ log[k].m = "file_end"
         /\ log[k].sess >= 1
         /\ stages[log[k].sess].result = "ok") =>
            \E j \in 1..(k - 1) :
                /\ log[j].m = "file_start" /\ log[j].res = "ok"
                /\ log[j].sess = log[k].sess
                /\ \A n \in (j + 1)..(k - 1) : log[n].m # "file_end"

\* C6: within one session the indices handed to the background routines
\* are 0, 1, 2, ... in the order of the trigger() calls, the cursor always
\* holds the first index not yet handed out, and the cursor changes only by
\* stage() setting it to 0, trigger() advancing it by one and unstage()
\* clearing it.
IndexOf(t) == Cardinality({u \in Threads : u < t /\ threads[u].sess = threads[t].sess})

IndicesFresh ==
    /\ \A t \in Threads : threads[t].i = IndexOf(t)
    /\ _data_index # None =>
          _data_index = Cardinality({u \in Threads : threads[u].sess = sess})

CursorStep ==
    _data_index' # _data_index =>
        \/ last'.op = "stage" /\ _data_index' = 0 /\ sess' = sess + 1
        \/ last'.op = "trigger" /\ _data_index' = _data_index + 1
              /\ Len(threads') = Len(threads) + 1
        \/ last'.op = "unstage" /\ _data_index' = None

CursorMonotonic == [][IndicesFresh' /\ CursorStep]_vars

CursorMonotonicWitness ==
    \E t \in Threads, u \in Threads :
        threads[t].sess = threads[u].sess /\ threads[t].i = 0 /\ threads[u].i = 1

\* C7: a stage() in start_stop mode that finds the remote state "no_file"
\* issues exactly one file_start, before any calibration_start/scan_start;
\* a stage() in continuous mode that finds a file open issues no file_start.
StageFileStarts ==
    \A s \in DOMAIN stages :
        /\ (file_mode = "start_stop" /\ stages[s].state0 = "no_file") =>
              /\ Cardinality(FileStarts(s)) = 1
              /\ \A j \in FileStarts(s), k \in Starts(s) : j < k
        /\ (file_mode = "continuous" /\ stages[s].state0 = "open") =>
              FileStarts(s) = {}

StageFileStartsWitness ==
    \E s \in DOMAIN stages :
        /\ file_mode = "start_stop" /\ stages[s].state0 = "no_file"
        /\ stages[s].result = "ok"
        /\ Cardinality(FileStarts(s)) = 1 /\ Starts(s) # {}

\* C8: a stage() that failed on one of its RPCs leaves no cursor and no
\* completion handle behind and the device not staged.
FailedStageLeavesNothing ==
    (last.op = "stage" /\ stages[sess].result = "rpc_failed") =>
        /\ _data_index = None
        /\ _completion_status = NoStatus
        /\ _staged = "no"

\* C9: a stage() issues at most one of calibration_start/scan_start and a
\* successful one exactly one, calibration_start when the calibration flag is
\* set and scan_start otherwise; it is issued only when the remote file is
\* open (the state was found other than "no_file" or a file_start of this
\* stage() succeeded before it), and never after a file_start that failed.
StageStartsOnce ==
    \A s \in DOMAIN stages :
        /\ Cardinality(Starts(s)) <= 1
        /\ stages[s].result = "ok" => Cardinality(Starts(s)) = 1
        /\ \A k \in Starts(s) :
              /\ log[k].m = (IF cal_flag THEN "calibration_start" ELSE "scan_start")
              /\ \/ stages[s].state0 # "no_file"
                 \/ \E j \in FileStarts(s) : j < k /\ log[j].res = "ok"
              /\ \A j \in StageCalls(s) : j # k => j < k /\ log[j].res = "ok"
        /\ (\E j \in FileStarts(s) : log[j].res # "ok") => Starts(s) = {}

StageStartsOnceWitness ==
    \E s \in DOMAIN stages :
        /\ stages[s].result = "ok" /\ cal_flag /\ stages[s].state0 = "no_file"
        /\ \E k \in Starts(s) : log[k].m = "calibration_start"

\* C10: in start_stop mode an unstage() that follows a stage() attempt
\* issues scan_end and then file_end and clears the cursor, whatever the
\* outcome of the stage() and of the RPCs.
UnstageFullTeardown ==
    (last.op = "unstage" /\ file_mode = "start_stop" /\ sess >= 1) =>
        /\ Len(CallSeq(nops)) = 2
        /\ CallSeq(nops)[1].m = "scan_end"
        /\ CallSeq(nops)[2].m = "file_end"
        /\ _data_index = None

\* Requests of the c-th call of the calibration, ROI and transport operations.
AuxCall(c) == SelectSeq(sent, LAMBDA e : e.call = c)

\* The response value of the latest file_start that an operation got a reply
\* to before request k.
LatestFile(op, k) ==
    LET js == {j \in 1..(k - 1) :
                  sent[j].m = "file_start" /\ sent[j].op = op /\ sent[j].res # "raise"}
    IN  IF js = {} THEN NoName
        ELSE sent[CHOOSE j \in js : \A i \in js : i <= j].val

\* The requests an operation of the calibration workflow makes, in order.
CalRequests(op) ==
    IF op = "take_noise" THEN <<"set_noise_triggers", "file_start">>
    ELSE IF op = "take_projectors" THEN <<"set_pulse_triggers", "file_start">>
    ELSE <<op>>

\* C11: make_projectors carries the response values of the latest file_start
\* of take_noise and of take_projectors, in that order; and whatever was
\* called before, each calibration operation sends its requests, stopping
\* only at a request the remote side failed.
ProjectorsFromLatestFiles ==
    /\ \A k \in DOMAIN sent :
          sent[k].m = "make_projectors" =>
              sent[k].args = <<LatestFile("take_noise", k), LatestFile("take_projectors", k)>>
    /\ \A c \in 1..naux :
          LET rs == AuxCall(c)
              want == CalRequests(rs[1].op)
          IN  /\ rs # <<>>
              /\ Len(rs) <= Len(want)
              /\ \A n \in DOMAIN rs : rs[n].m = want[n]
              /\ \A n \in 1..(Len(rs) - 1) : rs[n].res = "ok"
              /\ Len(rs) < Len(want) => rs[Len(rs)].res # "ok"

ProjectorsFromLatestFilesWitness ==
    /\ naux = 3
    /\ Len(sent) = 5
    /\ sent[2].m = "file_start" /\ sent[2].op = "take_noise" /\ sent[2].res = "ok"
    /\ sent[4].m = "file_start" /\ sent[4].op = "take_projectors" /\ sent[4].res = "ok"
    /\ sent[5].m = "make_projectors" /\ sent[5].args = <<sent[2].val, sent[4].val>>
    /\ sent[2].val # sent[4].val

\* The number of objects from p up to its root, p included: the depth of
\* an object whose parent is p.
RECURSIVE DepthBelow(_)
DepthBelow(p) == IF p = NoNode THEN 0 ELSE 1 + DepthBelow(tree[p].parent)

\* The nearest object from p upwards that was given a port, or NoNode.
RECURSIVE NearestOwner(_)
NearestOwner(p) ==
    IF p = NoNode THEN NoNode
    ELSE IF tree[p].kind = "owner" THEN p
    ELSE NearestOwner(tree[p].parent)

\* The number of parent links from an object whose parent is p to the
\* nearest RPCInterface above it.
RECURSIVE LinksToInterface(_)
LinksToInterface(p) ==
    IF p = NoNode \/ tree[p].kind # "plain" THEN 1
    ELSE 1 + LinksToInterface(tree[p].parent)

\* The last resolution was made by an object that is not itself an owner and
\* the only owner on its path is the root.
OnlyRootOwns ==
    /\ resolved.op # "init"
    /\ resolved.own = NoClient
    /\ NearestOwner(resolved.from) # NoNode
    /\ tree[NearestOwner(resolved.from)].parent = NoNode

EmptyArgumentsOmitted ==
    given # NoRequest =>
        /\ "params" \in wire.keys <=> Len(given.params.items) > 0
        /\ "kwargs" \in wire.keys <=> Len(given.kwargs.items) > 0

\* C14: once a call of the stream-socket transport has returned or raised,
\* no socket it opened is open.
SocketClosedOnEveryExit ==
    client = "socket" => \A k \in DOMAIN sockets : ~sockets[k].open

\* C15: a call that fails in the transport ends with RPCException, so that
\* _commCheck catches it and reports "Disconnected" instead of raising; and
\* no call sends its request more than once.
TransportFailureIsRPCException ==
    /\ (outcome.op = "sendrcv" /\ fault \notin {"ok", "fail"}) => outcome.exc = "RPCException"
    /\ (outcome.op = "_commCheck" /\ fault \notin {"ok", "fail"}) =>
          outcome.exc = "none" /\ _commStatus = "Disconnected" /\ ~_connected
    /\ \A c \in 1..naux : Len(AuxCall(c)) <= 1

\* C16: a change of the ROI table is made by a step that sends exactly one
\* roi_set for the changed label, and the table holds exactly what the
\* remote side has acknowledged.
RoiTableIsAcknowledged ==
    /\ rois = acked
    /\ \A c \in 1..naux : Len(AuxCall(c)) <= 1
    /\ \A k \in DOMAIN sent : sent[k].m = "roi_set"

\* The requests of the background routines, in the order they were sent.
AcquireLog == SelectSeq(log, LAMBDA e : e.op = "acquire")

\* C17: when trigger() is called only after the handles of the earlier
\* calls have finished, at most one background routine is in flight, and
\* the remote side sees scan_point_start, scan_point_end alternating: each
\* pair from one routine, each request answered before the next is sent, and
\* the indices of one session going up by one.
OneAcquireAtATime ==
    /\ Cardinality({t \in Threads : InFlight(t)}) <= 1
    /\ \A n \in DOMAIN AcquireLog :
          /\ AcquireLog[n].m = IF n % 2 = 1 THEN "scan_point_start" ELSE "scan_point_end"
          /\ n % 2 = 0 => AcquireLog[n].call = AcquireLog[n - 1].call
          /\ n < Len(AcquireLog) => AcquireLog[n].res # "sent"
          /\ n > 2 /\ n % 2 = 1 => AcquireLog[n].call = AcquireLog[n - 2].call + 1
    /\ \A t \in Threads :
          t > 1 /\ threads[t].sess = threads[t - 1].sess => threads[t].i = threads[t - 1].i + 1

OneAcquireAtATimeWitness ==
    /\ Len(threads) = 2
    /\ \A t \in Threads : threads[t].pc = "done"
    /\ threads[2].i = threads[1].i + 1
    /\ Len(AcquireLog) = 4

\* A step that is a call of stop().
StopStep == last'.op = "stop" /\ nops' = nops + 1

PointEndAfterScanEnd ==
    /\ mark # None
    /\ \E t \in Threads, k \in DOMAIN log :
          /\ log[k].m = "scan_end" /\ log[k].op = "unstage"
          /\ threads[t].ls # 0 /\ threads[t].ls <= mark
          /\ mark < k /\ k < threads[t].le

\* C19: stop() called when there is no handle, when the handle has finished
\* already or right after unstage() changes nothing and does not raise.
StopIdempotent ==
    [][(/\ StopStep
        /\ \/ _completion_status = NoStatus
           \/ statuses[_completion_status].finished
           \/ last.op = "unstage")
       => (statuses' = statuses /\ ~last'.raised)]_vars

\* C20: the handle of a background routine that has ended, by returning or
\* by an exception, is resolved; nothing but the routine resolves it.
HandleResolvedWhenRoutineEnds ==
    \A t \in Threads :
        threads[t].pc \in {"done", "dead"} => statuses[threads[t].status].finished

\* A step that is a call of take_noise or take_projectors ending with an
\* exception.
TakeFailedStep ==
    /\ naux' = naux + 1
    /\ outcome'.op \in {"take_noise", "take_projectors"}
    /\ outcome'.exc # "none"

\* C21: a take_noise or take_projectors that fails sends no file_start when
\* its trigger request failed and leaves all four recorded filenames as they
\* were, and no make_projectors carries the error message of a failed reply
\* as a filename.
FailedTakeKeepsFilenames ==
    [][/\ TakeFailedStep =>
            /\ calvars' = calvars
            /\ \A n \in DOMAIN AuxCall(naux + 1)' :
                  (n > 1) => AuxCall(naux + 1)'[n - 1].res = "ok"
       /\ \A k \in DOMAIN sent' :
            sent'[k].m = "make_projectors" =>
                sent'[k].args[1] # ErrMsg /\ sent'[k].args[2] # ErrMsg]_vars
====
